---- MODULE Spec2Model ----
(***************************************************************************)
(* python-redis-lock: the Lock handle of src/src/redis_lock/__init__.py,   *)
(* its four Lua scripts, the renewal thread and the Redis server state     *)
(* they act on (lock key, signal list, clients blocked in BLPOP).          *)
(*                                                                         *)
(* Time is discrete: one Tick is one second (1000 ms).  Clients take their *)
(* steps at any moment between ticks, so a client may be arbitrarily slow  *)
(* between two Redis commands.  Every Redis command and every Lua script   *)
(* is one atomic step of the server.                                       *)
(***************************************************************************)
EXTENDS Integers, Sequences, FiniteSets, TLC

\* ------------------------------------------------------------------ bounds
\* Largest timeout argument passed to acquire(timeout=...).
MaxTimeout == 2
\* Largest expire argument passed to extend(expire=...).
MaxExtend == 2
\* A timeout longer than the expire of the auto-renewing handle (3).
LongTimeout == 4
\* Cap of the bookkeeping counter `waited` (seconds spent inside BLPOP).
MaxWaited == 4

\* A signal_expire argument (ms) that is not the default.
LongSignalExpire == 2000

\* ------------------------------------------------------- program constants
\* Default of the constructor argument signal_expire.
DefaultSignalExpire == 1000
\* RESET_ALL_SCRIPT: redis.call('expire', signal, 1)
ResetAllSignalExpire == 1

\* ------------------------------------------------------------------ values
Handles == {"h1", "h2", "h3"}
Names == {"n1", "n2"}
\* Redis nil / Python None for a string reply.
Nil == "nil"
\* A value written under lock:N by a client that is not one of the handles
\* (tests/test_redis_lock.py test_upgrade: legacy_conn.set(lock._name, ...)).
Legacy == "legacy"
\* Python None for the timeout argument is <<>>, an integer t is <<t>>.
NoTimeout == <<>>
\* Python None for a returned value is <<>>, an integer r is <<r>>.
None == <<>>

Min(a, b) == IF a < b THEN a ELSE b

\* Python truthiness of the timeout argument: None and 0 are falsy.
Truthy(t) == t # NoTimeout /\ t[1] # 0

\* Lock.__init__: the fields the constructor derives from its arguments.
\* expire 0 stands for None (the constructor maps 0 to None); a
\* renewal_interval of 0 stands for None (auto_renewal off).
\* float(expire) * 2 / 3 is a whole number of seconds for the expire values
\* used here (multiples of 3).
NewLockLazy(name, id, expire, auto_renewal, signal_expire) ==
    [name |-> name,
     id |-> id,
     expire |-> expire,
     renewal_interval |-> IF auto_renewal THEN expire ELSE 0,
     signal_expire |-> signal_expire]

NewLock(name, id, expire, auto_renewal, signal_expire) ==
    [name |-> name,
     id |-> id,
     expire |-> expire,
     renewal_interval |-> IF auto_renewal THEN (expire * 2) \div 3 ELSE 0,
     signal_expire |-> signal_expire]

\* The calls a client program makes on its handle:
\*   "acquire"     acquire()                  "release"  release()
\*   "acquire_nb"  acquire(blocking=False)    "extend"   extend(e), extend()
\*   "acquire_t"   acquire(timeout=t)         "reset"    reset()
\*   "acquire_bad" acquire(blocking=False, timeout=t)
\*   "locked"      locked()                   "get_owner_id"  get_owner_id()
\*   "drop"        the program drops its last reference to the handle and
\*                 the object is garbage-collected (del lock; gc.collect())
\* and the calls of clients without a handle: "reset_all", "legacy_set".
\* timeouts: the values the programs pass as acquire(timeout=...).
Client(h1, h2, h3, others) ==
    [calls |-> [h \in Handles |->
                  CASE h = "h1" -> h1 [] h = "h2" -> h2 [] h = "h3" -> h3],
     others |-> others,
     timeouts |-> 1..MaxTimeout]

Locks(l1, l2, l3) ==
    [h \in Handles |-> CASE h = "h1" -> l1 [] h = "h2" -> l2 [] h = "h3" -> l3]

\* The handles that exist after construction and the programs that use
\* them: each scenario builds three Lock objects (their constructor
\* arguments are the inputs of the model).
\* Contention on one name, as in test_no_overlap: every client acquires and
\* releases; h3 borrows h1's id.
Contention ==
    [lock |-> Locks(NewLock("n1", "a", 0, FALSE, DefaultSignalExpire),
                    NewLock("n1", "b", 0, FALSE, DefaultSignalExpire),
                    NewLock("n1", "a", 0, FALSE, DefaultSignalExpire)),
     env |-> Client({"acquire", "acquire_nb", "release"},
                    {"acquire", "acquire_nb", "release"},
                    {"acquire", "release"},
                    {})]

Scenarios ==
    { Contention,
      \* a lease that expires (expire=1), a contender without expire
      [lock |-> Locks(NewLock("n1", "a", 1, FALSE, DefaultSignalExpire),
                      NewLock("n1", "b", 0, FALSE, DefaultSignalExpire),
                      NewLock("n2", "c", 0, FALSE, DefaultSignalExpire)),
       env |-> Client({"acquire", "release", "extend"},
                      {"acquire", "acquire_t", "release"},
                      {},
                      {"reset_all"})],
      \* forced resets on one name
      [lock |-> Locks(NewLock("n1", "a", 0, FALSE, DefaultSignalExpire),
                      NewLock("n1", "b", 0, FALSE, DefaultSignalExpire),
                      NewLock("n1", "c", 0, FALSE, DefaultSignalExpire)),
       env |-> Client({"acquire", "acquire_nb", "release"},
                      {"acquire", "release", "reset"},
                      {"acquire_nb"},
                      {})],
      \* reset_all over two names, a value written by a legacy client
      [lock |-> Locks(NewLock("n1", "a", 1, FALSE, DefaultSignalExpire),
                      NewLock("n1", "b", 0, FALSE, DefaultSignalExpire),
                      NewLock("n2", "c", 0, FALSE, DefaultSignalExpire)),
       env |-> Client({"acquire_nb"},
                      {"acquire"},
                      {"acquire_nb"},
                      {"reset_all", "legacy_set"})],
      \* an auto-renewing handle (expire=3, interval 2) and a contender
      [lock |-> Locks(NewLock("n1", "a", 3, TRUE, DefaultSignalExpire),
                      NewLock("n1", "b", 0, FALSE, DefaultSignalExpire),
                      NewLock("n2", "c", 0, FALSE, DefaultSignalExpire)),
       env |-> Client({"acquire", "release"},
                      {"acquire", "release", "reset"},
                      {},
                      {})],
      \* extension: h2 is built with h1's id and another expire and only
      \* extends; h3 acquires without expire
      [lock |-> Locks(NewLock("n1", "a", 2, FALSE, DefaultSignalExpire),
                      NewLock("n1", "a", 1, FALSE, DefaultSignalExpire),
                      NewLock("n1", "b", 0, FALSE, DefaultSignalExpire)),
       env |-> Client({"acquire", "extend", "release"},
                      {"extend"},
                      {"acquire", "extend"},
                      {})],
      \* an auto-renewing handle that may be dropped without release, and a
      \* contender that waits longer than the holder's expire
      [lock |-> Locks(NewLock("n1", "a", 3, TRUE, DefaultSignalExpire),
                      NewLock("n1", "b", 0, FALSE, DefaultSignalExpire),
                      NewLock("n2", "c", 0, FALSE, DefaultSignalExpire)),
       env |-> [Client({"acquire", "release", "drop"},
                       {"acquire_t"},
                       {},
                       {}) EXCEPT !.timeouts = {LongTimeout}]],
      \* argument checks of acquire(): timeouts that are negative, zero,
      \* larger than expire; h2 renews automatically
      [lock |-> Locks(NewLock("n1", "a", 1, FALSE, DefaultSignalExpire),
                      NewLock("n1", "b", 3, TRUE, DefaultSignalExpire),
                      NewLock("n2", "c", 0, FALSE, DefaultSignalExpire)),
       env |-> [Client({"acquire_t", "acquire_bad"},
                       {"acquire_t"},
                       {},
                       {}) EXCEPT !.timeouts = {-1, 0, LongTimeout}]],
      \* handles with a signal_expire of their own
      [lock |-> Locks(NewLock("n1", "a", 0, FALSE, LongSignalExpire),
                      NewLock("n1", "b", 0, FALSE, DefaultSignalExpire),
                      NewLock("n2", "c", 0, FALSE, DefaultSignalExpire)),
       env |-> Client({"acquire_nb", "release", "reset"},
                      {"acquire"},
                      {},
                      {"reset_all"})],
      \* test_given_id: h2 is built with h1's id and no expire; h3 observes
      [lock |-> Locks(NewLock("n1", "a", 2, FALSE, DefaultSignalExpire),
                      NewLock("n1", "a", 0, FALSE, DefaultSignalExpire),
                      NewLock("n1", "b", 0, FALSE, DefaultSignalExpire)),
       env |-> Client({"acquire_nb", "release", "get_owner_id"},
                      {"acquire", "extend", "release"},
                      {"locked"},
                      {})] }

\* ------------------------------------------------------------------- state
VARIABLES
    lock,       \* handle -> the immutable fields of the Lock object
    env,        \* the calls the client programs make (fixed by Init)
    db,         \* name -> the two Redis keys of the name:
                \*   val: value of lock:N (Nil = absent), ttl: its TTL in s
                \*   (-1 no expiry, -2 absent, as the TTL command reports),
                \*   sig: LLEN lock-signal:N, sigttl: its PTTL in ms,
                \*   and as bookkeeping of the lock key's history
                \*   ex: the EX argument of the SET that created it (0: none),
                \*   ext: the argument of the last EXPIRE on it (0: none)
    blocked,    \* name -> the handles blocked in BLPOP lock-signal:N, FIFO
    blpopLeft,  \* handle -> seconds left of its BLPOP (0: no timeout)
    pc,         \* handle -> where its calling thread is ("collected":
                \*   the Lock object no longer exists)
    acq,        \* handle -> arguments of the acquire() call in progress
    timedOut,   \* handle -> local `timed_out` of acquire() (truthiness)
    res,        \* handle -> <<method, outcome>> of the call that just ended
    thread,     \* handle -> _lock_renewal_thread: "None", "waiting" (in
                \*   stop.wait), "due" (woke on timeout), "dead" (finished)
    stop,       \* handle -> _lock_renewal_stop.is_set()
    wleft,      \* handle -> seconds left of the worker's stop.wait(interval)
    hold,       \* handle -> bookkeeping: "held" from a successful acquire()
                \*   until the lock key is removed, and then how it was lost
    waited,     \* handle -> bookkeeping: seconds spent in BLPOP by the
                \*   acquire(timeout=...) call in progress
    resetAllRes,\* what the last call of reset_all() returned (None before)
    cache,      \* the Django cache and the callers of get_or_set_locked
    legacy,     \* the keys and the Lock objects of the legacy module
    wrapper,    \* one call of a method wrapped by handle_redis_exception
    token,      \* handle -> bookkeeping: the handle's last BLPOP returned a
                \*   token and its next SET NX has not been issued yet
    freed       \* handle -> bookkeeping: <<how, where>> the lock key was
                \*   removed during the blocking acquire() in progress and
                \*   where the handle was then; <<"taken", "-">> once another
                \*   client set the key after that, <<"got", "-">> once the
                \*   handle's acquire() returned True after that

vars == <<lock, env, db, blocked, blpopLeft, pc, acq, timedOut, res, thread, stop,
          wleft, hold, waited, resetAllRes, token, freed, cache, legacy, wrapper>>

\* The state of the components around the Lock class; the Lock's own
\* operations leave it alone.
aux == <<cache, legacy, wrapper>>

\* The variables of the Lock handles and of their Redis keys.
core == <<lock, env, db, blocked, blpopLeft, pc, acq, timedOut, res, thread, stop,
          wleft, hold, waited, resetAllRes, token, freed>>

NoKeys == [val |-> Nil, ttl |-> -2, sig |-> 0, sigttl |-> -2, ex |-> 0, ext |-> 0]
NoArgs == [blocking |-> TRUE, timeout |-> NoTimeout]
NoRes == <<"-", "-">>
NotFreed == <<"-", "-">>
Causes == {"release", "reset", "reset_all", "expired"}

\* The handles of scenario s right after construction.
Built(s) ==
    /\ lock = s.lock /\ env = s.env
    /\ db = [n \in Names |-> NoKeys]
    /\ blocked = [n \in Names |-> <<>>]
    /\ blpopLeft = [h \in Handles |-> 0]
    /\ pc = [h \in Handles |-> "idle"]
    /\ acq = [h \in Handles |-> NoArgs]
    /\ timedOut = [h \in Handles |-> FALSE]
    /\ res = [h \in Handles |-> NoRes]
    /\ thread = [h \in Handles |-> "None"]
    /\ stop = [h \in Handles |-> FALSE]
    /\ wleft = [h \in Handles |-> 0]
    /\ hold = [h \in Handles |-> "no"]
    /\ waited = [h \in Handles |-> 0]
    /\ resetAllRes = None
    /\ token = [h \in Handles |-> FALSE]
    /\ freed = [h \in Handles |-> NotFreed]

NoCache == <<>>
NoLegacy == <<>>
NoWrapper == <<>>

Init ==
    /\ \E s \in Scenarios : Built(s)
    /\ cache = NoCache
    /\ legacy = NoLegacy
    /\ wrapper = NoWrapper

\* ------------------------------------------------- Redis commands on a name
\* k is the record of one name's two keys.
Get(k) == k.val

Ttl(k) == k.ttl

\* SET lock:N v NX EX ex (ex = 0: no EX argument).
SetNxOverwrite(k, v, ex) ==
    [ok |-> TRUE,
     k |-> [k EXCEPT !.val = v, !.ttl = IF ex = 0 THEN -1 ELSE ex,
                     !.ex = ex, !.ext = 0]]

SetNx(k, v, ex) ==
    IF k.val = Nil
    THEN [ok |-> TRUE,
          k |-> [k EXCEPT !.val = v, !.ttl = IF ex = 0 THEN -1 ELSE ex,
                          !.ex = ex, !.ext = 0]]
    ELSE [ok |-> FALSE, k |-> k]

DelLock(k) == [k EXCEPT !.val = Nil, !.ttl = -2, !.ex = 0, !.ext = 0]

ExpireDeletes(k, s) == DelLock(k)

ExpireAdds(k, s) ==
    IF k.val = Nil THEN k
    ELSE [k EXCEPT !.ttl = k.ttl + s, !.ext = s]

\* EXPIRE lock:N s
Expire(k, s) ==
    IF k.val = Nil THEN k
    ELSE IF s <= 0 THEN DelLock(k)
    ELSE [k EXCEPT !.ttl = s, !.ext = s]

DelSignal(k) == [k EXCEPT !.sig = 0, !.sigttl = -2]

\* LPUSH lock-signal:N 1 (a new list has no TTL)
Lpush(k) ==
    [k EXCEPT !.sig = k.sig + 1, !.sigttl = IF k.sig = 0 THEN -1 ELSE k.sigttl]

PexpireNever(k, ms) == k

\* PEXPIRE lock-signal:N ms
Pexpire(k, ms) ==
    IF k.sig = 0 THEN k
    ELSE IF ms <= 0 THEN DelSignal(k)
    ELSE [k EXCEPT !.sigttl = ms]

LpopKeeps(k, c) == k

\* LPOP of c elements; an emptied list is removed with its TTL.
Lpop(k, c) ==
    IF k.sig - c <= 0 THEN DelSignal(k) ELSE [k EXCEPT !.sig = k.sig - c]

\* ------------------------------------------------------------- Lua scripts
\* Each returns [ret, k]: the script's reply and the keys of the name after it.
UnlockKeepsKey(k, id, signal_expire) ==
    IF Get(k) # id
    THEN [ret |-> 1, k |-> k]
    ELSE [ret |-> 0, k |-> Pexpire(Lpush(DelSignal(k)), signal_expire)]

UnlockNoDelSignal(k, id, signal_expire) ==
    IF Get(k) # id
    THEN [ret |-> 1, k |-> k]
    ELSE [ret |-> 0, k |-> DelLock(Pexpire(Lpush(k), signal_expire))]

UnlockNoGuard(k, id, signal_expire) ==
    [ret |-> 0, k |-> DelLock(Pexpire(Lpush(DelSignal(k)), signal_expire))]

UnlockNoError(k, id, signal_expire) ==
    [ret |-> 0,
     k |-> IF Get(k) # id THEN k
           ELSE DelLock(Pexpire(Lpush(DelSignal(k)), signal_expire))]

UNLOCK_SCRIPT(k, id, signal_expire) ==
    IF Get(k) # id
    THEN [ret |-> 1, k |-> k]
    ELSE [ret |-> 0,
          k |-> DelLock(Pexpire(Lpush(DelSignal(k)), signal_expire))]

ExtendReacquires(k, id, expire) ==
    IF Get(k) # id THEN [ret |-> 0, k |-> SetNxOverwrite(k, id, expire).k]
    ELSE IF Ttl(k) < 0 THEN [ret |-> 2, k |-> k]
    ELSE [ret |-> 0, k |-> Expire(k, expire)]

ExtendNoGuard(k, id, expire) ==
    IF Ttl(k) < 0 THEN [ret |-> 2, k |-> k]
    ELSE [ret |-> 0, k |-> Expire(k, expire)]

ExtendTtlFirst(k, id, expire) ==
    IF Ttl(k) < 0 THEN [ret |-> 2, k |-> k]
    ELSE IF Get(k) # id THEN [ret |-> 1, k |-> k]
    ELSE [ret |-> 0, k |-> Expire(k, expire)]

EXTEND_SCRIPT(k, id, expire) ==
    IF Get(k) # id THEN [ret |-> 1, k |-> k]
    ELSE IF Ttl(k) < 0 THEN [ret |-> 2, k |-> k]
    ELSE [ret |-> 0, k |-> Expire(k, expire)]

ResetSignalOnly(k, id, signal_expire) ==
    [ret |-> 0, k |-> Pexpire(Lpush(DelSignal(k)), signal_expire)]

\* ARGV[1] (the id) is passed by Lock.reset but never read by the script.
RESET_SCRIPT(k, id, signal_expire) ==
    [ret |-> IF k.val = Nil THEN 0 ELSE 1,
     k |-> DelLock(Pexpire(Lpush(DelSignal(k)), signal_expire))]

ResetAllNoExpire(d) ==
    LET locks == {n \in Names : d[n].val # Nil}
    IN [ret |-> Cardinality(locks),
        d |-> [n \in Names |->
                 IF n \in locks THEN DelLock(Lpush(DelSignal(d[n]))) ELSE d[n]]]

\* KEYS lock:* : the names whose lock key exists.  EXPIRE signal 1 is
\* PEXPIRE signal 1000.
RESET_ALL_SCRIPT(d) ==
    LET locks == {n \in Names : d[n].val # Nil}
    IN [ret |-> Cardinality(locks),
        d |-> [n \in Names |->
                 IF n \in locks
                 THEN DelLock(Pexpire(Lpush(DelSignal(d[n])),
                                      ResetAllSignalExpire * 1000))
                 ELSE d[n]]]

\* ---------------------------------------------- serving blocked BLPOP clients
\* After a command or script that pushed, the server hands the elements of
\* the list to the clients blocked on it, oldest first.
ServeCount(d, n) == Min(d[n].sig, Len(blocked[n]))

Served(d) ==
    UNION {{blocked[n][i] : i \in 1..ServeCount(d, n)} : n \in Names}

DbAfterServe(d) == [n \in Names |-> Lpop(d[n], ServeCount(d, n))]

QueueAfterServe(d) ==
    [n \in Names |-> SubSeq(blocked[n], ServeCount(d, n) + 1, Len(blocked[n]))]

\* bookkeeping: a handle that was "held" and whose id is no longer stored
\* under its lock key has lost the lock; `why` says how.
HoldAfter(d, why) ==
    [h \in Handles |->
       IF hold[h] = "held" /\ d[lock[h].name].val # lock[h].id THEN why
       ELSE hold[h]]

\* bookkeeping: the lock key of a handle inside a blocking acquire() is
\* removed by this step.
FreedAfter(d, how) ==
    [w \in Handles |->
       IF /\ pc[w] \in {"setnx", "blpop", "blocked"}
          /\ acq[w].blocking
          /\ db[lock[w].name].val # Nil
          /\ d[lock[w].name].val = Nil
       THEN <<how, pc[w]>> ELSE freed[w]]

\* bookkeeping: the lock key of name n is set by this step (by handle h, or
\* by a client without a handle when h is no handle); `got` says that it is
\* h's acquire() returning True.
FreedAfterSet(n, h, got) ==
    [w \in Handles |->
       IF lock[w].name # n \/ freed[w][1] \notin Causes THEN freed[w]
       ELSE IF w # h THEN <<"taken", "-">>
       ELSE IF got THEN <<"got", "-">>
       ELSE freed[w]]

\* The server side of a step that leaves the keys as d and the calling
\* threads at p: the blocked clients the step's pushes serve return from
\* BLPOP with a token (timed_out = not token and timeout = False).
Serve(d, p) ==
    /\ db' = DbAfterServe(d)
    /\ blocked' = QueueAfterServe(d)
    /\ pc' = [x \in Handles |-> IF x \in Served(d) THEN "setnx" ELSE p[x]]
    /\ timedOut' = [x \in Handles |->
                      IF x \in Served(d) THEN FALSE ELSE timedOut[x]]
    /\ blpopLeft' = [x \in Handles |->
                       IF x \in Served(d) THEN 0 ELSE blpopLeft[x]]
    /\ token' = [x \in Handles |-> x \in Served(d) \/ token[x]]

\* ------------------------------------------------------------ Lock.acquire
\* The timeout arguments: None, and integers from -1 on (0 and a negative
\* one included).
Timeouts == {NoTimeout} \cup {<<t>> : t \in (-1..MaxTimeout) \cup {LongTimeout}}

AcquireChecksOwnFlag(h, blocking, timeout) ==
    IF hold[h] = "held" THEN "AlreadyAcquired"
    ELSE IF ~blocking /\ timeout # NoTimeout THEN "TimeoutNotUsable"
    ELSE "ok"

AcquireChecksNoHeld(h, blocking, timeout) ==
    IF ~blocking /\ timeout # NoTimeout THEN "TimeoutNotUsable"
    ELSE IF Truthy(timeout) /\ timeout[1] < 0 THEN "InvalidTimeout"
    ELSE IF /\ Truthy(timeout)
            /\ lock[h].expire # 0
            /\ lock[h].renewal_interval = 0
            /\ timeout[1] > lock[h].expire THEN "TimeoutTooLarge"
    ELSE "ok"

AcquireChecksNoRenewalCase(h, blocking, timeout) ==
    IF lock[h].id = Get(db[lock[h].name]) THEN "AlreadyAcquired"
    ELSE IF ~blocking /\ timeout # NoTimeout THEN "TimeoutNotUsable"
    ELSE IF Truthy(timeout) /\ timeout[1] < 0 THEN "InvalidTimeout"
    ELSE IF /\ Truthy(timeout)
            /\ lock[h].expire # 0
            /\ timeout[1] > lock[h].expire THEN "TimeoutTooLarge"
    ELSE "ok"

\* The checks of acquire() before its loop: the outcome they raise, or "ok".
AcquireChecks(h, blocking, timeout) ==
    IF lock[h].id = Get(db[lock[h].name]) THEN "AlreadyAcquired"
    ELSE IF ~blocking /\ timeout # NoTimeout THEN "TimeoutNotUsable"
    ELSE IF Truthy(timeout) /\ timeout[1] < 0 THEN "InvalidTimeout"
    ELSE IF /\ Truthy(timeout)
            /\ lock[h].expire # 0
            /\ lock[h].renewal_interval = 0
            /\ timeout[1] > lock[h].expire THEN "TimeoutTooLarge"
    ELSE "ok"

\* The kind of call acquire(blocking, timeout) is.
AcquireCall(blocking, timeout) ==
    IF timeout # NoTimeout THEN (IF blocking THEN "acquire_t" ELSE "acquire_bad")
    ELSE IF blocking THEN "acquire" ELSE "acquire_nb"

\* acquire(blocking, timeout) is called: the GET of `_held` and the
\* argument checks.
Acquire(h, blocking, timeout) ==
    /\ pc[h] = "idle"
    /\ AcquireCall(blocking, timeout) \in env.calls[h]
    /\ IF timeout = NoTimeout THEN TRUE ELSE timeout[1] \in env.timeouts
    /\ LET c == AcquireChecks(h, blocking, timeout)
       IN /\ pc' = [pc EXCEPT ![h] = IF c = "ok" THEN "setnx" ELSE "done"]
          /\ res' = [res EXCEPT ![h] = IF c = "ok" THEN NoRes ELSE <<"acquire", c>>]
    /\ acq' = [acq EXCEPT ![h] = [blocking |-> blocking, timeout |-> timeout]]
    /\ UNCHANGED <<aux, lock, env, resetAllRes, db, blocked, blpopLeft, timedOut, thread, stop, wleft,
                   hold, waited, token, freed>>

\* _start_lock_renewer: "AlreadyStarted" or the started thread.
StartLockRenewer(h) ==
    IF thread[h] # "None"
    THEN [raised |-> TRUE, thread |-> thread[h], stop |-> stop[h], wleft |-> wleft[h]]
    ELSE [raised |-> FALSE, thread |-> "waiting", stop |-> FALSE,
          wleft |-> lock[h].renewal_interval]

GivesUpOnTimeoutOnly(h) == timedOut[h]

\* After a failed SET NX: return False (timed out, or not blocking) instead
\* of waiting in BLPOP.
GivesUp(h) == timedOut[h] \/ ~acq[h].blocking

\* One iteration of the loop of acquire() up to its BLPOP:
\* SET lock:N id NX EX expire and what the code does with the reply.
SetNX(h) ==
    /\ pc[h] = "setnx"
    /\ LET n == lock[h].name
           r == SetNx(db[n], lock[h].id, lock[h].expire)
           w == StartLockRenewer(h)
       IN IF r.ok
          THEN /\ db' = [db EXCEPT ![n] = r.k]
               /\ pc' = [pc EXCEPT ![h] = "done"]
               /\ freed' = FreedAfterSet(n, h, lock[h].renewal_interval = 0
                                                 \/ ~w.raised)
               /\ IF lock[h].renewal_interval # 0
                  THEN /\ thread' = [thread EXCEPT ![h] = w.thread]
                       /\ stop' = [stop EXCEPT ![h] = w.stop]
                       /\ wleft' = [wleft EXCEPT ![h] = w.wleft]
                       /\ res' = [res EXCEPT ![h] =
                                    IF w.raised THEN <<"acquire", "AlreadyStarted">>
                                    ELSE <<"acquire", "True">>]
                       /\ hold' = [hold EXCEPT ![h] =
                                     IF w.raised THEN hold[h] ELSE "held"]
                  ELSE /\ res' = [res EXCEPT ![h] = <<"acquire", "True">>]
                       /\ hold' = [hold EXCEPT ![h] = "held"]
                       /\ UNCHANGED <<thread, stop, wleft>>
          ELSE /\ IF GivesUp(h)
                  THEN /\ pc' = [pc EXCEPT ![h] = "done"]
                       /\ res' = [res EXCEPT ![h] = <<"acquire", "False">>]
                  ELSE /\ pc' = [pc EXCEPT ![h] = "blpop"]
                       /\ UNCHANGED res
               /\ UNCHANGED <<db, thread, stop, wleft, hold, freed>>
    /\ token' = [token EXCEPT ![h] = FALSE]
    /\ UNCHANGED <<aux, lock, env, resetAllRes, blocked, blpopLeft, acq, timedOut, waited>>

\* blpop_timeout = timeout or self._expire or 0
BlpopTimeout(h) ==
    IF Truthy(acq[h].timeout) THEN acq[h].timeout[1]
    ELSE IF lock[h].expire # 0 THEN lock[h].expire
    ELSE 0

\* BLPOP lock-signal:N blpop_timeout is issued: a token that is there is
\* popped at once, otherwise the client blocks on the server.
Blpop(h) ==
    /\ pc[h] = "blpop"
    /\ LET n == lock[h].name
       IN IF db[n].sig > 0
          THEN /\ db' = [db EXCEPT ![n] = Lpop(db[n], 1)]
               /\ timedOut' = [timedOut EXCEPT ![h] = FALSE]
               /\ pc' = [pc EXCEPT ![h] = "setnx"]
               /\ token' = [token EXCEPT ![h] = TRUE]
               /\ UNCHANGED <<blocked, blpopLeft>>
          ELSE /\ blocked' = [blocked EXCEPT ![n] = Append(blocked[n], h)]
               /\ blpopLeft' = [blpopLeft EXCEPT ![h] = BlpopTimeout(h)]
               /\ pc' = [pc EXCEPT ![h] = "blocked"]
               /\ UNCHANGED <<db, timedOut, token>>
    /\ UNCHANGED <<aux, lock, env, resetAllRes, acq, res, thread, stop, wleft, hold, waited, freed>>

\* The call returns (or raises) to its caller.
Return(h) ==
    /\ pc[h] = "done"
    /\ pc' = [pc EXCEPT ![h] = "idle"]
    /\ res' = [res EXCEPT ![h] = NoRes]
    /\ acq' = [acq EXCEPT ![h] = NoArgs]
    /\ timedOut' = [timedOut EXCEPT ![h] = FALSE]
    /\ waited' = [waited EXCEPT ![h] = 0]
    /\ freed' = [freed EXCEPT ![h] = NotFreed]
    \* bookkeeping: a release() that raised ends the handle's claim here
    /\ hold' = [hold EXCEPT ![h] = IF res[h][1] = "release" THEN "no" ELSE hold[h]]
    /\ UNCHANGED <<aux, lock, env, resetAllRes, db, blocked, blpopLeft, thread, stop, wleft, token>>

\* ------------------------------------------------------------ Lock.release
\* The part of release() after the renewal thread is dealt with: UNLOCK.
Unlock(h) ==
    LET n == lock[h].name
        r == UNLOCK_SCRIPT(db[n], lock[h].id, lock[h].signal_expire)
        d == [db EXCEPT ![n] = r.k]
    IN /\ Serve(d, [pc EXCEPT ![h] = "done"])
       /\ res' = [res EXCEPT ![h] =
                    <<"release", IF r.ret = 1 THEN "NotAcquired" ELSE "None">>]
       /\ hold' = [HoldAfter(d, "peer") EXCEPT ![h] =
                      IF r.ret = 0 THEN "no" ELSE hold[h]]
       /\ freed' = FreedAfter(d, "release")

ReleaseNoJoin(h) ==
    /\ pc[h] = "idle"
    /\ "release" \in env.calls[h]
    /\ stop' = [stop EXCEPT ![h] = thread[h] \in {"waiting", "due"}]
    /\ Unlock(h)
    /\ UNCHANGED <<aux, lock, env, resetAllRes, acq, thread, wleft, waited>>

\* release() is called.  With a live renewal thread _stop_lock_renewer sets
\* the stop event and joins; with none, or a finished one (which it leaves
\* in place), the UNLOCK script runs at once.
Release(h) ==
    /\ pc[h] = "idle"
    /\ "release" \in env.calls[h]
    /\ IF thread[h] \in {"waiting", "due"}
       THEN /\ stop' = [stop EXCEPT ![h] = TRUE]
            /\ pc' = [pc EXCEPT ![h] = "join"]
            /\ UNCHANGED <<db, blocked, blpopLeft, timedOut, res, hold, token, freed>>
       ELSE /\ Unlock(h)
            /\ UNCHANGED stop
    /\ UNCHANGED <<aux, lock, env, resetAllRes, acq, thread, wleft, waited>>

\* join() returns once the thread has finished; then
\* _lock_renewal_thread = None and the UNLOCK script runs.
ReleaseJoined(h) ==
    /\ pc[h] = "join"
    /\ thread[h] = "dead"
    /\ thread' = [thread EXCEPT ![h] = "None"]
    /\ Unlock(h)
    /\ UNCHANGED <<aux, lock, env, resetAllRes, acq, stop, wleft, waited>>

\* ------------------------------------------------------------- Lock.extend
ExtendArgs == {NoTimeout} \cup {<<e>> : e \in 1..MaxExtend}

ExtendExpireOwn(h, expire) ==
    IF lock[h].expire # 0 THEN <<lock[h].expire>> ELSE expire

\* The expire extend() passes to the script: <<e>>, or <<>> for TypeError.
ExtendExpire(h, expire) ==
    IF Truthy(expire) THEN expire
    ELSE IF lock[h].expire # 0 THEN <<lock[h].expire>>
    ELSE NoTimeout

ExtendOutcome(ret) ==
    IF ret = 1 THEN "NotAcquired" ELSE IF ret = 2 THEN "NotExpirable" ELSE "None"

Extend(h, expire) ==
    /\ pc[h] = "idle"
    /\ "extend" \in env.calls[h]
    /\ LET n == lock[h].name
           e == ExtendExpire(h, expire)
       IN IF e = NoTimeout
          THEN /\ res' = [res EXCEPT ![h] = <<"extend", "TypeError">>]
               /\ UNCHANGED db
          ELSE LET r == EXTEND_SCRIPT(db[n], lock[h].id, e[1])
               IN /\ db' = [db EXCEPT ![n] = r.k]
                  /\ res' = [res EXCEPT ![h] = <<"extend", ExtendOutcome(r.ret)>>]
    /\ pc' = [pc EXCEPT ![h] = "done"]
    /\ UNCHANGED <<aux, lock, env, resetAllRes, blocked, blpopLeft, acq, timedOut, thread, stop, wleft,
                   hold, waited, token, freed>>

\* -------------------------------------------------- Lock.reset, reset_all
Reset(h) ==
    /\ pc[h] = "idle"
    /\ "reset" \in env.calls[h]
    /\ LET n == lock[h].name
           r == RESET_SCRIPT(db[n], lock[h].id, lock[h].signal_expire)
           d == [db EXCEPT ![n] = r.k]
       IN /\ Serve(d, [pc EXCEPT ![h] = "done"])
          /\ hold' = HoldAfter(d, "reset")
          /\ freed' = FreedAfter(d, "reset")
    /\ res' = [res EXCEPT ![h] = <<"reset", "None">>]
    /\ UNCHANGED <<aux, lock, env, resetAllRes, acq, thread, stop, wleft, waited>>

\* reset_all(redis_client): runs the script and has no return statement, so
\* the script's reply is dropped and the caller gets None.
reset_all(d) == [ret |-> None, d |-> RESET_ALL_SCRIPT(d).d]

\* reset_all(redis_client) is called by a client that needs no handle.
ResetAll ==
    /\ "reset_all" \in env.others
    /\ LET d == reset_all(db).d
       IN /\ Serve(d, pc)
          /\ hold' = HoldAfter(d, "reset_all")
          /\ freed' = FreedAfter(d, "reset_all")
    /\ resetAllRes' = reset_all(db).ret
    /\ UNCHANGED <<aux, lock, env, acq, res, thread, stop, wleft, waited>>

\* A client that is not one of the handles writes its own value under the
\* lock key: conn.set(lock._name, value, nx=True) of test_upgrade.
LegacySet(n) ==
    /\ "legacy_set" \in env.others
    /\ db[n].val = Nil
    /\ db' = [db EXCEPT ![n] = SetNx(db[n], Legacy, 0).k]
    /\ freed' = FreedAfterSet(n, Legacy, FALSE)
    /\ UNCHANGED <<aux, lock, env, resetAllRes, blocked, blpopLeft, pc, acq, timedOut, res, thread,
                   stop, wleft, hold, waited, token>>

\* ------------------------------------------- Lock.locked, Lock.get_owner_id
\* EXISTS lock:N
Exists(k) == IF k.val = Nil THEN 0 ELSE 1

lockedMine(h) == Get(db[lock[h].name]) = lock[h].id

\* locked(): self._client.exists(self._name) == 1
locked(h) == Exists(db[lock[h].name]) = 1

\* get_owner_id(): the GET reply, decoded when it is bytes; None for nil.
get_owner_id(h) ==
    IF Get(db[lock[h].name]) = Nil THEN "None" ELSE Get(db[lock[h].name])

Locked(h) ==
    /\ pc[h] = "idle"
    /\ "locked" \in env.calls[h]
    /\ pc' = [pc EXCEPT ![h] = "done"]
    /\ res' = [res EXCEPT ![h] = <<"locked", IF locked(h) THEN "True" ELSE "False">>]
    /\ UNCHANGED <<aux, lock, env, db, blocked, blpopLeft, acq, timedOut, thread, stop,
                   wleft, hold, waited, resetAllRes, token, freed>>

GetOwnerId(h) ==
    /\ pc[h] = "idle"
    /\ "get_owner_id" \in env.calls[h]
    /\ pc' = [pc EXCEPT ![h] = "done"]
    /\ res' = [res EXCEPT ![h] = <<"get_owner_id", get_owner_id(h)>>]
    /\ UNCHANGED <<aux, lock, env, db, blocked, blpopLeft, acq, timedOut, thread, stop,
                   wleft, hold, waited, resetAllRes, token, freed>>

\* ----------------------------------------------------- Lock._lock_renewer
\* The program drops the handle without release(); the worker holds only a
\* weak reference (weakref.ref(self)), so the Lock object is collected.
Collect(h) ==
    /\ pc[h] = "idle"
    /\ "drop" \in env.calls[h]
    /\ pc' = [pc EXCEPT ![h] = "collected"]
    /\ UNCHANGED <<aux, lock, env, db, blocked, blpopLeft, acq, timedOut, res, thread,
                   stop, wleft, hold, waited, resetAllRes, token, freed>>

LockrefStrong(h) == TRUE

\* lockref() returns the Lock object (not None).
Lockref(h) == pc[h] # "collected"

\* The worker woke from stop.wait(interval) on its timeout: lockref(), then
\* lock.extend(), which ends the thread when it raises; then stop.wait
\* again, which returns at once when the stop event is set.
RenewerExtend(h) ==
    /\ thread[h] = "due"
    /\ IF Lockref(h)
       THEN LET n == lock[h].name
                r == EXTEND_SCRIPT(db[n], lock[h].id, lock[h].expire)
            IN /\ db' = [db EXCEPT ![n] = r.k]
               /\ thread' = [thread EXCEPT ![h] =
                               IF r.ret # 0 \/ stop[h] THEN "dead" ELSE "waiting"]
               /\ wleft' = [wleft EXCEPT ![h] =
                              IF r.ret # 0 \/ stop[h] THEN 0
                              ELSE lock[h].renewal_interval]
       \* lock is None: break
       ELSE /\ thread' = [thread EXCEPT ![h] = "dead"]
            /\ wleft' = [wleft EXCEPT ![h] = 0]
            /\ UNCHANGED db
    /\ UNCHANGED <<aux, lock, env, resetAllRes, blocked, blpopLeft, pc, acq, timedOut, res, stop, hold,
                   waited, token, freed>>

\* stop.wait(timeout=interval) returns True: the stop event was set.
RenewerStopped(h) ==
    /\ thread[h] = "waiting"
    /\ stop[h]
    /\ thread' = [thread EXCEPT ![h] = "dead"]
    /\ wleft' = [wleft EXCEPT ![h] = 0]
    /\ UNCHANGED <<aux, lock, env, resetAllRes, db, blocked, blpopLeft, pc, acq, timedOut, res, stop,
                   hold, waited, token, freed>>

\* -------------------------------------------------------------------- time
\* One second passes on the server and on the clients' clocks.
TickKeys(k) ==
    LET a == IF k.ttl > 0
             THEN (IF k.ttl = 1 THEN DelLock(k) ELSE [k EXCEPT !.ttl = k.ttl - 1])
             ELSE k
    IN IF a.sigttl > 0
       THEN (IF a.sigttl - 1000 <= 0 THEN DelSignal(a)
             ELSE [a EXCEPT !.sigttl = a.sigttl - 1000])
       ELSE a

\* The blocked clients whose BLPOP timeout runs out with this second.
BlpopExpiring == {h \in Handles : pc[h] = "blocked" /\ blpopLeft[h] = 1}

RECURSIVE Without(_, _)
Without(q, S) ==
    IF q = <<>> THEN <<>>
    ELSE IF Head(q) \in S THEN Without(Tail(q), S)
    ELSE <<Head(q)>> \o Without(Tail(q), S)

Tick ==
    /\ db' = [n \in Names |-> TickKeys(db[n])]
    /\ blocked' = [n \in Names |-> Without(blocked[n], BlpopExpiring)]
    /\ blpopLeft' = [h \in Handles |->
                       IF blpopLeft[h] > 0 THEN blpopLeft[h] - 1 ELSE 0]
    \* BLPOP returned nothing: timed_out = not None and timeout
    /\ pc' = [h \in Handles |-> IF h \in BlpopExpiring THEN "setnx" ELSE pc[h]]
    /\ timedOut' = [h \in Handles |->
                      IF h \in BlpopExpiring THEN Truthy(acq[h].timeout)
                      ELSE timedOut[h]]
    /\ waited' = [h \in Handles |->
                    IF pc[h] = "blocked" /\ Truthy(acq[h].timeout)
                    THEN Min(waited[h] + 1, MaxWaited) ELSE waited[h]]
    /\ wleft' = [h \in Handles |-> IF wleft[h] > 0 THEN wleft[h] - 1 ELSE 0]
    /\ thread' = [h \in Handles |->
                    IF thread[h] = "waiting" /\ wleft[h] = 1 /\ ~stop[h]
                    THEN "due" ELSE thread[h]]
    /\ hold' = HoldAfter([n \in Names |-> TickKeys(db[n])], "expired")
    /\ freed' = FreedAfter([n \in Names |-> TickKeys(db[n])], "expired")
    /\ UNCHANGED <<aux, lock, env, resetAllRes, acq, res, stop, token>>

\* ----------------------------------------------------------- specification
Next ==
    \/ \E h \in Handles, b \in BOOLEAN, t \in Timeouts : Acquire(h, b, t)
    \/ \E h \in Handles : SetNX(h)
    \/ \E h \in Handles : Blpop(h)
    \/ \E h \in Handles : Return(h)
    \/ \E h \in Handles : Release(h)
    \/ \E h \in Handles : ReleaseJoined(h)
    \/ \E h \in Handles, e \in ExtendArgs : Extend(h, e)
    \/ \E h \in Handles : Reset(h)
    \/ ResetAll
    \/ \E n \in Names : LegacySet(n)
    \/ \E h \in Handles : Locked(h)
    \/ \E h \in Handles : GetOwnerId(h)
    \/ \E h \in Handles : Collect(h)
    \/ \E h \in Handles : RenewerExtend(h)
    \/ \E h \in Handles : RenewerStopped(h)
    \/ Tick

Spec == Init /\ [][Next]_vars

\* A thread that is inside a method runs on, the renewal thread runs, and
\* time passes; nothing obliges a client program to make a call.
Fairness ==
    /\ WF_vars(Tick)
    /\ \A h \in Handles :
         /\ WF_vars(SetNX(h))
         /\ WF_vars(Blpop(h))
         /\ WF_vars(Return(h))
         /\ WF_vars(ReleaseJoined(h))
         /\ WF_vars(RenewerExtend(h))
         /\ WF_vars(RenewerStopped(h))

FairSpec == Init /\ [][Next]_vars /\ Fairness

\* The contention program on its own: the clients only acquire and release,
\* and a client that can release does so sooner or later.
ContentionInit ==
    /\ Built(Contention)
    /\ cache = NoCache
    /\ legacy = NoLegacy
    /\ wrapper = NoWrapper

ContentionNext ==
    \/ \E h \in Handles, b \in BOOLEAN : Acquire(h, b, NoTimeout)
    \/ \E h \in Handles : SetNX(h)
    \/ \E h \in Handles : Blpop(h)
    \/ \E h \in Handles : Return(h)
    \/ \E h \in Handles : Release(h)
    \/ Tick

ContentionFairness ==
    /\ WF_vars(Tick)
    /\ \A h \in Handles :
         /\ WF_vars(SetNX(h))
         /\ WF_vars(Blpop(h))
         /\ WF_vars(Return(h))
         /\ SF_vars(Release(h))

ContentionSpec == ContentionInit /\ [][ContentionNext]_vars /\ ContentionFairness

\* --------------------------------------- RedisCache.get_or_set_locked
\* (django_cache.py).  Three callers ask for the same cache key; each call
\* builds Lock(client, lock_key, expire=None, id=None), so the ids differ.
\* cache.val is the cached value (Nil: the key is missing), cache.at the
\* position of each caller, cache.ret what it returns, cache.how the path it
\* took, cache.made the callers whose value_creator returned a value.  The
\* value a caller's value_creator returns is the caller's name.
CacheLocks ==
    [lock |-> Locks(NewLock("n1", "a", 0, FALSE, DefaultSignalExpire),
                    NewLock("n1", "b", 0, FALSE, DefaultSignalExpire),
                    NewLock("n1", "c", 0, FALSE, DefaultSignalExpire)),
     env |-> Client({"acquire", "release"},
                    {"acquire", "release"},
                    {"acquire", "release"},
                    {})]

CacheInit ==
    /\ Built(CacheLocks)
    /\ cache = [val |-> Nil,
                at |-> [h \in Handles |-> "idle"],
                ret |-> [h \in Handles |-> Nil],
                how |-> [h \in Handles |-> "-"],
                made |-> {}]
    /\ legacy = NoLegacy
    /\ wrapper = NoWrapper

\* val = self.get(key, default=not_set): a hit returns at once.
CacheGet(h) ==
    /\ cache.at[h] = "idle"
    /\ pc[h] = "idle"
    /\ cache' = IF cache.val # Nil
                THEN [cache EXCEPT !.at[h] = "returned", !.ret[h] = cache.val,
                                   !.how[h] = "hit"]
                ELSE [cache EXCEPT !.at[h] = "enter"]
    /\ UNCHANGED <<core, legacy, wrapper>>

\* with self.lock(lock_key, ...): Lock.__enter__ calls acquire(blocking=True).
CacheEnter(h) ==
    /\ cache.at[h] = "enter"
    /\ Acquire(h, TRUE, NoTimeout)

CacheRereadBlind(h) ==
    /\ cache.at[h] = "enter"
    /\ pc[h] = "done"
    /\ res[h] = <<"acquire", "True">>
    /\ cache' = [cache EXCEPT !.at[h] = "create"]
    /\ UNCHANGED <<core, legacy, wrapper>>

\* Inside the lock: val = self.get(key, default=not_set) once more.
CacheReread(h) ==
    /\ cache.at[h] = "enter"
    /\ pc[h] = "done"
    /\ res[h] = <<"acquire", "True">>
    /\ cache' = IF cache.val # Nil
                THEN [cache EXCEPT !.at[h] = "exit", !.ret[h] = cache.val,
                                   !.how[h] = "reread"]
                ELSE [cache EXCEPT !.at[h] = "create"]
    /\ UNCHANGED <<core, legacy, wrapper>>

\* val = value_creator(): it returns a value, or raises.
CacheCreate(h, ok) ==
    /\ cache.at[h] = "create"
    /\ cache' = IF ok
                THEN [cache EXCEPT !.at[h] = "set", !.made = @ \cup {h}]
                ELSE [cache EXCEPT !.at[h] = "exit", !.ret[h] = "raised",
                                   !.how[h] = "raised"]
    /\ UNCHANGED <<core, legacy, wrapper>>

\* self.set(key, val, timeout=timeout, version=version); return val
CacheSet(h) ==
    /\ cache.at[h] = "set"
    /\ cache' = [cache EXCEPT !.val = h, !.at[h] = "exit", !.ret[h] = h,
                              !.how[h] = "made"]
    /\ UNCHANGED <<core, legacy, wrapper>>

\* The with block is left (by return or by the exception): the acquire()
\* of __enter__ has returned, and __exit__ calls release().
CacheExit(h) ==
    /\ cache.at[h] = "exit"
    /\ \/ pc[h] = "done" /\ res[h][1] = "acquire" /\ Return(h)
       \/ pc[h] = "idle" /\ Release(h)

\* release() has returned: get_or_set_locked returns (or raises).
CacheReturn(h) ==
    /\ cache.at[h] = "exit"
    /\ pc[h] = "done"
    /\ res[h][1] = "release"
    /\ cache' = [cache EXCEPT !.at[h] = "returned"]
    /\ UNCHANGED <<core, legacy, wrapper>>

\* The caller goes on, and may call get_or_set_locked again.
CacheAgain(h) ==
    /\ cache.at[h] = "returned"
    /\ IF pc[h] = "done"
       THEN Return(h)
       ELSE /\ cache' = [cache EXCEPT !.at[h] = "idle", !.ret[h] = Nil,
                                      !.how[h] = "-"]
            /\ UNCHANGED <<core, legacy, wrapper>>

CacheNext ==
    \/ \E h \in Handles : CacheGet(h)
    \/ \E h \in Handles : CacheEnter(h)
    \/ \E h \in Handles : SetNX(h)
    \/ \E h \in Handles : Blpop(h)
    \/ \E h \in Handles : CacheReread(h)
    \/ \E h \in Handles, ok \in BOOLEAN : CacheCreate(h, ok)
    \/ \E h \in Handles : CacheSet(h)
    \/ \E h \in Handles : CacheExit(h)
    \/ \E h \in Handles : CacheReturn(h)
    \/ \E h \in Handles : CacheAgain(h)
    \/ Tick

CacheSpec == CacheInit /\ [][CacheNext]_vars

\* ------------------------------------ decorators.handle_redis_exception
\* One call of a wrapped method.  wrapper.outs lists what the successive
\* invocations of the method do ("ok": it returns; otherwise the exception
\* it raises), wrapper.conn and wrapper.force say whether the class has a
\* `conn` and a `force_register_scripts` attribute; calls counts the
\* invocations, attempt the attempts of the retry decorator.
Outcomes == {"ok", "ConnectionError", "NoScriptError", "Error"}

\* stop_max_attempt_number = 2
MaxAttempts == 2

\* The invocations one call of the wrapper can make at most.
MaxInvocations == 2 * MaxAttempts

WrapInit ==
    /\ Built(Contention)
    /\ cache = NoCache
    /\ legacy = NoLegacy
    /\ \E o \in [1..MaxInvocations -> Outcomes], c, f \in BOOLEAN :
          wrapper = [outs |-> o, conn |-> c, force |-> f, at |-> "call",
                     calls |-> 0, attempt |-> 1, renewed |-> 0, registered |-> 0,
                     result |-> <<"-", "-">>]

\* check_if_connection_exception (TimeoutError counts as a connection error)
check_if_connection_exception(e) == e = "ConnectionError"

\* try: return method(*args, **kwargs)
WrapCall ==
    /\ wrapper.at = "call"
    /\ LET n == wrapper.calls + 1
           o == wrapper.outs[n]
       IN wrapper' =
            [wrapper EXCEPT
               !.calls = n,
               !.at = IF check_if_connection_exception(o) THEN "renew"
                      ELSE IF o = "NoScriptError" THEN "register"
                      ELSE "done",
               !.result = IF o = "ok" THEN <<"return", n>>
                          ELSE IF o = "Error" THEN <<"raise", o>>
                          ELSE @]
    /\ UNCHANGED <<core, cache, legacy>>

\* except ConnectionError: renew_old_redis_connection, then the method once
\* more; what it raises now is raised again, and the retry decorator runs
\* the wrapper once more when that is a connection error and an attempt is
\* left.
WrapRenew ==
    /\ wrapper.at = "renew"
    /\ LET n == wrapper.calls + 1
           o == wrapper.outs[n]
           again == check_if_connection_exception(o) /\ wrapper.attempt < MaxAttempts
       IN wrapper' =
            [wrapper EXCEPT
               !.calls = n,
               !.renewed = IF wrapper.conn THEN @ + 1 ELSE @,
               !.attempt = IF again THEN @ + 1 ELSE @,
               !.at = IF again THEN "call" ELSE "done",
               !.result = IF o = "ok" THEN <<"return", n>>
                          ELSE IF again THEN @
                          ELSE <<"raise", o>>]
    /\ UNCHANGED <<core, cache, legacy>>

\* except NoScriptError: register_scripts(method, args, e), and the wrapper
\* falls off its end: it returns None.
WrapRegister ==
    /\ wrapper.at = "register"
    /\ wrapper' =
         [wrapper EXCEPT
            !.registered = IF wrapper.conn /\ wrapper.force THEN @ + 1 ELSE @,
            !.at = "done",
            !.result = <<"return", "None">>]
    /\ UNCHANGED <<core, cache, legacy>>

WrapNext ==
    \/ WrapCall
    \/ WrapRenew
    \/ WrapRegister

WrapSpec == WrapInit /\ [][WrapNext]_vars

\* ------------------------------------ the single-file module redis_lock.py
\* Three Lock objects of the old module on one name.  legacy.expire is the
\* expire each was built with (0: None), legacy.tok its _tok ("None" before
\* the first acquire), legacy.val / ttl the lock key and legacy.by the handle
\* whose SET stored it, legacy.sig the length of the signal list, queue the
\* clients blocked in BLPOP and left their remaining seconds, cached whether
\* the server knows UNLOCK_SCRIPT_HASH.  legacy.logging says whether the
\* name `logging`, which the module binds only in its main program
\* (line 102), is bound: without it every method raises NameError at its
\* first line.
LegacyExpire == 1

LegacyInit ==
    /\ Built(Contention)
    /\ cache = NoCache
    /\ wrapper = NoWrapper
    /\ \E e \in [Handles -> {0, LegacyExpire}], l, c \in BOOLEAN :
          legacy = [logging |-> l, cached |-> c, expire |-> e,
                    tok |-> [h \in Handles |-> "None"],
                    val |-> Nil, ttl |-> -2, by |-> Nil,
                    sig |-> 0, queue |-> <<>>,
                    left |-> [h \in Handles |-> 0],
                    at |-> [h \in Handles |-> "idle"],
                    blocking |-> [h \in Handles |-> TRUE],
                    res |-> [h \in Handles |-> NoRes]]

\* self._tok = urandom(16) if self._expire else 1; the random token of a
\* handle is written as the handle's name.
NewTok(h) == IF legacy.expire[h] # 0 THEN h ELSE "1"

\* __enter__(blocking) up to its loop.
OldEnter(h, blocking) ==
    /\ legacy.at[h] = "idle"
    /\ legacy' =
         IF ~legacy.logging
         THEN [legacy EXCEPT !.res[h] = <<"acquire", "NameError">>]
         ELSE IF legacy.tok[h] # "None"
         THEN [legacy EXCEPT !.res[h] = <<"acquire", "RuntimeError">>]
         ELSE [legacy EXCEPT !.tok[h] = NewTok(h), !.at[h] = "set",
                             !.blocking[h] = blocking, !.res[h] = NoRes]
    /\ UNCHANGED <<core, cache, wrapper>>

\* busy = not self._client.set(self._name, self._tok, nx=True, ex=self._expire)
OldSetNx(h) ==
    /\ legacy.at[h] = "set"
    /\ legacy' =
         IF legacy.val = Nil
         THEN [legacy EXCEPT !.val = legacy.tok[h], !.by = h,
                             !.ttl = IF legacy.expire[h] = 0 THEN -1
                                     ELSE legacy.expire[h],
                             !.at[h] = "delete"]
         ELSE IF legacy.blocking[h]
         THEN [legacy EXCEPT !.at[h] = "blpop"]
         ELSE [legacy EXCEPT !.at[h] = "idle", !.res[h] = <<"acquire", "False">>]
    /\ UNCHANGED <<core, cache, wrapper>>

\* self._client.blpop(self._signal, self._expire or 0)
OldBlpop(h) ==
    /\ legacy.at[h] = "blpop"
    /\ legacy' =
         IF legacy.sig > 0
         THEN [legacy EXCEPT !.sig = @ - 1, !.at[h] = "set"]
         ELSE [legacy EXCEPT !.queue = Append(@, h), !.at[h] = "blocked",
                             !.left[h] = legacy.expire[h]]
    /\ UNCHANGED <<core, cache, wrapper>>

\* self._client.delete(self._signal); return True
OldDelete(h) ==
    /\ legacy.at[h] = "delete"
    /\ legacy' = [legacy EXCEPT !.sig = 0, !.at[h] = "idle",
                                !.res[h] = <<"acquire", "True">>]
    /\ UNCHANGED <<core, cache, wrapper>>

\* UNLOCK_SCRIPT of the old module run with token t for handle h: lpush
\* (which serves the first blocked client) and del when the stored value
\* is t, otherwise nothing.
OldUnlock(h, t) ==
    IF legacy.val # Nil /\ legacy.val = t
    THEN LET pushed == IF legacy.queue # <<>>
                       THEN [legacy EXCEPT !.queue = Tail(@),
                                           !.at[Head(legacy.queue)] = "set",
                                           !.left[Head(legacy.queue)] = 0]
                       ELSE [legacy EXCEPT !.sig = @ + 1]
         IN [pushed EXCEPT !.val = Nil, !.ttl = -2, !.by = Nil,
                           !.at[h] = "idle", !.res[h] = <<"release", "1">>]
    ELSE [legacy EXCEPT !.at[h] = "idle", !.res[h] = <<"release", "0">>]

\* __exit__ / release is called.
OldExit(h) ==
    /\ legacy.at[h] = "idle"
    /\ legacy' =
         IF ~legacy.logging
         THEN [legacy EXCEPT !.res[h] = <<"release", "NameError">>]
         ELSE [legacy EXCEPT !.at[h] = "evalsha", !.res[h] = NoRes]
    /\ UNCHANGED <<core, cache, wrapper>>

\* self._client.evalsha(UNLOCK_SCRIPT_HASH, 2, name, signal, self._tok)
OldEvalsha(h) ==
    /\ legacy.at[h] = "evalsha"
    /\ legacy' =
         IF legacy.cached THEN OldUnlock(h, legacy.tok[h])
         ELSE [legacy EXCEPT !.at[h] = "eval"]
    /\ UNCHANGED <<core, cache, wrapper>>

\* except NoScriptError: self._client.eval(UNLOCK_SCRIPT, ...), which also
\* caches the script.
OldEval(h) ==
    /\ legacy.at[h] = "eval"
    /\ legacy' = [OldUnlock(h, legacy.tok[h]) EXCEPT !.cached = TRUE]
    /\ UNCHANGED <<core, cache, wrapper>>

\* One second passes: the lock key's TTL and the BLPOP timeouts run down.
OldTick ==
    /\ LET out == {h \in Handles : legacy.at[h] = "blocked" /\ legacy.left[h] = 1}
           gone == legacy.ttl = 1
       IN legacy' =
            [legacy EXCEPT
               !.val = IF gone THEN Nil ELSE @,
               !.by = IF gone THEN Nil ELSE @,
               !.ttl = IF gone THEN -2 ELSE IF @ > 0 THEN @ - 1 ELSE @,
               !.queue = Without(@, out),
               !.left = [h \in Handles |-> IF @[h] > 0 THEN @[h] - 1 ELSE 0],
               !.at = [h \in Handles |-> IF h \in out THEN "set" ELSE @[h]]]
    /\ UNCHANGED <<core, cache, wrapper>>

LegacyNext ==
    \/ \E h \in Handles, b \in BOOLEAN : OldEnter(h, b)
    \/ \E h \in Handles : OldSetNx(h)
    \/ \E h \in Handles : OldBlpop(h)
    \/ \E h \in Handles : OldDelete(h)
    \/ \E h \in Handles : OldExit(h)
    \/ \E h \in Handles : OldEvalsha(h)
    \/ \E h \in Handles : OldEval(h)
    \/ OldTick

LegacySpec == LegacyInit /\ [][LegacyNext]_vars

\* ================================================================== claims
\* The call of method m on handle h ends (returns or raises) in this step.
Ends(h, m) == pc[h] # "done" /\ pc'[h] = "done" /\ res'[h][1] = m

\* Handle h executes the SET NX of its acquire() in this step.
Tries(h) == pc[h] = "setnx" /\ pc'[h] # "setnx"

KeyOf(h) == db[lock[h].name]

Rivals(a, b) ==
    a # b /\ lock[a].name = lock[b].name /\ lock[a].id # lock[b].id

\* C1. Mutual exclusion: two handles with distinct ids on the same name are
\* never both between a successful acquire() and their release() of it,
\* as long as the lock was not taken from them by lease expiry, reset() or
\* reset_all() (hold = "held" ends with any of these, and with a release()
\* through another handle constructed with the holder's own id).
C1_MutualExclusion ==
    \A a, b \in Handles :
        Rivals(a, b) => ~(hold[a] = "held" /\ hold[b] = "held")

\* One handle holds the lock while a rival is blocked in its acquire().
C1_Witness ==
    \E a, b \in Handles :
        Rivals(a, b) /\ hold[a] = "held" /\ pc[b] = "blocked"

\* C2. release() by a handle whose id is not the stored value (or with the
\* key absent) raises NotAcquired and leaves the lock key, its TTL and the
\* signal list as they were; release() by a handle whose id is the stored
\* value succeeds and removes the key, whoever acquired.
C2_IdentityOnRelease ==
    [][\A h \in Handles :
         Ends(h, "release") =>
            IF KeyOf(h).val = lock[h].id
            THEN res'[h][2] = "None" /\ db'[lock[h].name].val = Nil
            ELSE /\ res'[h][2] = "NotAcquired"
                 /\ db' = db
                 /\ blocked' = blocked]_vars

\* A release() has raised NotAcquired, and a release() by a handle that
\* only borrowed the id has released the lock another handle acquired.
C2_Witness ==
    \E h, g, f \in Handles :
        /\ res[h] = <<"release", "NotAcquired">>
        /\ res[g] = <<"release", "None">>
        /\ f # g /\ hold[f] = "peer"

\* C3. After holder A's lease expired and a handle with another id acquired
\* the name, A's release() and A's extend() raise NotAcquired and leave the
\* lock key's value and TTL as they were.
C3_LeaseSafety ==
    [][\A h \in Handles :
         /\ Ends(h, "release") \/ Ends(h, "extend")
         /\ hold[h] = "expired"
         /\ KeyOf(h).val \notin {Nil, lock[h].id}
         => /\ res'[h][2] = "NotAcquired"
            /\ db'[lock[h].name].val = KeyOf(h).val
            /\ db'[lock[h].name].ttl = KeyOf(h).ttl]_vars

\* A's lease expired, B holds the lock, A's release() raised NotAcquired.
C3_Witness ==
    \E a, b \in Handles :
        /\ Rivals(a, b)
        /\ hold[a] = "expired"
        /\ hold[b] = "held"
        /\ KeyOf(b).val = lock[b].id
        /\ res[a] = <<"release", "NotAcquired">>

\* C4. While lock:N holds a value that is not B's id (a handle's id or a
\* legacy client's value), B.acquire(blocking=False) raises nothing, returns
\* False and changes neither the lock key nor the signal list.
C4_NonBlockingFailure ==
    [][\A h \in Handles :
         KeyOf(h).val \notin {Nil, lock[h].id} =>
            /\ (/\ pc[h] = "idle"
                /\ pc'[h] # "idle"
                /\ acq'[h] = [blocking |-> FALSE, timeout |-> NoTimeout])
               => pc'[h] = "setnx" /\ db' = db /\ blocked' = blocked
            /\ (Tries(h) /\ ~acq[h].blocking)
               => /\ res'[h] = <<"acquire", "False">>
                  /\ pc'[h] = "done"
                  /\ db' = db
                  /\ blocked' = blocked]_vars

\* A non-blocking acquire() has returned False on a key written by a legacy
\* client.
C4_Witness ==
    \E h \in Handles :
        /\ res[h] = <<"acquire", "False">>
        /\ ~acq[h].blocking
        /\ KeyOf(h).val = Legacy

\* C5. Timeout budget: an acquire(timeout=T) never spends more than T
\* seconds in BLPOP in total.
C5_TimeoutBudget ==
    \A h \in Handles :
        Truthy(acq[h].timeout) => waited[h] <= acq[h].timeout[1]

\* C6. Wake on release: a handle (without renewal thread) inside a blocking
\* acquire() without timeout when the holder releases eventually returns
\* True, unless another client sets the lock key first.
C6_WakeOnRelease ==
    \A w \in Handles :
        (/\ freed[w][1] = "release"
         /\ acq[w].timeout = NoTimeout
         /\ lock[w].renewal_interval = 0)
        ~> (freed[w][1] \in {"got", "taken"})

\* C7. A handle blocked in BLPOP when reset() removed the lock key is woken
\* and its acquire() ends only by returning True, unless another client set
\* the key first.
C7_ResetWakesWaiter ==
    \A w \in Handles :
        freed[w] = <<"reset", "blocked">> => pc[w] \in {"setnx", "blocked"}

\* C8. reset_all() unblocks the first waiter of every name that has clients
\* blocked in BLPOP, whatever the state of the name's lock key.
C8_ResetAllWakesWaiters ==
    [][ResetAll =>
         \A n \in Names :
            blocked[n] # <<>> => pc'[Head(blocked[n])] = "setnx"]_vars

\* C9 as stated: neither release() nor reset() removes the lock key unless
\* the stored value is the caller's id.
C9_IdentityGuardOnReleaseAndReset ==
    [][\A h \in Handles :
         /\ Ends(h, "release") \/ Ends(h, "reset")
         /\ KeyOf(h).val # Nil
         /\ db'[lock[h].name].val = Nil
         => KeyOf(h).val = lock[h].id]_vars

\* C9 as amended: release() never removes the lock key unless the stored
\* value is the caller's id; reset() has no such guard, it removes the key
\* whatever value it holds.
C9_IdentityGuardOnRelease ==
    [][\A h \in Handles :
         /\ (/\ Ends(h, "release")
             /\ KeyOf(h).val # Nil
             /\ db'[lock[h].name].val = Nil)
            => KeyOf(h).val = lock[h].id
         /\ Ends(h, "reset") => db'[lock[h].name].val = Nil]_vars

\* A reset() by a handle with another id took the lock from its holder.
C9_Witness ==
    \E h, g \in Handles :
        /\ Rivals(h, g)
        /\ res[h] = <<"reset", "None">>
        /\ hold[g] = "reset"
        /\ KeyOf(g).val = Nil

\* C10. reset() is unconditional: it leaves lock:N absent whoever owned it;
\* on the absent key a fresh handle's acquire(blocking=False) returns True;
\* and the release() of the handle that lost the lock to the reset raises
\* NotAcquired (as long as its id was not stored again).
C10_ResetUnconditional ==
    [][\A h \in Handles :
         /\ Ends(h, "reset") =>
               /\ db'[lock[h].name].val = Nil
               /\ \A g \in Handles :
                     (hold[g] = "held" /\ lock[g].name = lock[h].name)
                     => hold'[g] = "reset"
         /\ (/\ Tries(h)
             /\ ~acq[h].blocking
             /\ thread[h] = "None"
             /\ KeyOf(h).val = Nil)
            => /\ res'[h] = <<"acquire", "True">>
               /\ db'[lock[h].name].val = lock[h].id
         /\ (/\ Ends(h, "release")
             /\ hold[h] = "reset"
             /\ KeyOf(h).val # lock[h].id)
            => res'[h][2] = "NotAcquired"]_vars

\* A reset() took the lock from its holder, a fresh handle acquired it
\* without blocking, and the former holder's release() raised NotAcquired.
C10_Witness ==
    \E g, f \in Handles :
        /\ Rivals(g, f)
        /\ hold[g] = "reset"
        /\ res[g] = <<"release", "NotAcquired">>
        /\ hold[f] = "held"
        /\ "acquire" \notin env.calls[f]


C12_ResetAllReturnsCount ==
    [][ResetAll =>
         resetAllRes' = <<Cardinality({n \in Names : db[n].val # Nil})>>]_vars

\* extend(e) on handle h gets as far as the EXTEND script: it has an expire
\* to pass, the argument or the constructor's.
Extends(h, e) == Extend(h, e) /\ (Truthy(e) \/ lock[h].expire # 0)

\* C13. extend() by a handle whose id is not the stored value, or with the
\* lock key absent, raises NotAcquired, also when the key has no TTL (the
\* ownership check comes first); extend() on a key that holds the caller's
\* id and has no TTL raises NotExpirable; in both cases the keys are as
\* they were.
C13_ExtendRequiresOwnership ==
    [][\A h \in Handles, e \in ExtendArgs :
         Extends(h, e) =>
            IF KeyOf(h).val # lock[h].id
            THEN res'[h] = <<"extend", "NotAcquired">> /\ db' = db
            ELSE IF KeyOf(h).ttl < 0
            THEN res'[h] = <<"extend", "NotExpirable">> /\ db' = db
            ELSE res'[h] = <<"extend", "None">>]_vars

\* The key holds h's id without TTL: h's extend() raised NotExpirable, and
\* the extend() of a handle with another id raised NotAcquired.
C13_Witness ==
    \E h, g \in Handles :
        /\ Rivals(h, g)
        /\ KeyOf(h).val = lock[h].id
        /\ KeyOf(h).ttl = -1
        /\ res[h] = <<"extend", "NotExpirable">>
        /\ res[g] = <<"extend", "NotAcquired">>

\* C14. When the lock key holds id X and has a TTL, extend(e) by any handle
\* with id X sets the TTL to e, extend() to the calling handle's constructor
\* expire; the value and the signal list stay as they were.
C14_SuccessfulExtend ==
    [][\A h \in Handles, e \in ExtendArgs :
         (Extends(h, e) /\ KeyOf(h).val = lock[h].id /\ KeyOf(h).ttl > 0) =>
            /\ res'[h] = <<"extend", "None">>
            /\ db'[lock[h].name].ttl = IF Truthy(e) THEN e[1] ELSE lock[h].expire
            /\ db'[lock[h].name].val = KeyOf(h).val
            /\ db'[lock[h].name].sig = KeyOf(h).sig
            /\ db'[lock[h].name].sigttl = KeyOf(h).sigttl
            /\ blocked' = blocked]_vars

\* A handle that never acquires, built with the holder's id and another
\* expire, has extended the holder's lock to its own constructor expire.
C14_Witness ==
    \E h, g \in Handles :
        /\ h # g
        /\ lock[h].id = lock[g].id
        /\ lock[h].expire # lock[g].expire
        /\ hold[g] = "held"
        /\ "acquire" \notin env.calls[h]
        /\ res[h] = <<"extend", "None">>
        /\ KeyOf(h).ttl = lock[h].expire

\* C15. TTL bound: a lock key created with an expire E always has a TTL; the
\* TTL is at most E until the first successful extend and at most the
\* argument of the most recent successful extend after it.
C15_TtlBound ==
    \A n \in Names :
        (db[n].val # Nil /\ db[n].ex # 0) =>
            /\ db[n].ttl >= 1
            /\ db[n].ttl <= (IF db[n].ext # 0 THEN db[n].ext ELSE db[n].ex)

\* A key created with expire E has been extended to more than E.
C15_Witness ==
    \E n \in Names :
        /\ db[n].val # Nil
        /\ db[n].ex # 0
        /\ db[n].ext > db[n].ex
        /\ db[n].ttl = db[n].ext

\* Handle h renews automatically, holds the lock, has not started its
\* release() and has not been collected.
Renewing(h) ==
    /\ lock[h].renewal_interval # 0
    /\ hold[h] = "held"
    /\ pc[h] \notin {"join", "collected"}

\* C16. Renewal keeps the lease alive.  From the successful acquire() of an
\* auto-renewal handle until its release(), with no reset by others and the
\* handle not collected: the key holds the holder's id and the worker is
\* alive in every state; the lease does not expire as long as the worker is
\* on schedule (no second passes while its extend is due); and no acquire()
\* of a contender returns True, however long its timeout.
C16_RenewalKeepsLease ==
    /\ [](\A h \in Handles :
            Renewing(h) =>
               /\ KeyOf(h).val = lock[h].id
               /\ KeyOf(h).ttl >= 1
               /\ thread[h] \in {"waiting", "due"})
    /\ [][\A h \in Handles :
            Renewing(h) =>
               /\ thread[h] = "waiting" => hold'[h] # "expired"
               /\ \A w \in Handles :
                     (Rivals(h, w) /\ Tries(w)) => res'[w][2] # "True"]_vars

\* A contender's acquire(timeout=T) with T longer than the holder's expire
\* has waited T seconds and returned False; the holder still holds.
C16_Witness ==
    \E h, w \in Handles :
        /\ Rivals(h, w)
        /\ Renewing(h)
        /\ acq[w].timeout = <<LongTimeout>>
        /\ LongTimeout > lock[h].expire
        /\ waited[w] >= LongTimeout
        /\ res[w] = <<"acquire", "False">>

\* C17. Renewal stops on drop: once an auto-renewal handle that holds the
\* lock is collected without release(), its worker extends no more and ends
\* at its next wake-up, and the lock key then expires, which leaves the
\* name to the others.
C17_RenewalStopsOnDrop ==
    /\ [][\A h \in Handles :
            pc[h] = "collected" =>
               /\ RenewerExtend(h) => (db' = db /\ thread'[h] = "dead")
               /\ KeyOf(h).val = lock[h].id =>
                     db'[lock[h].name].ttl <= KeyOf(h).ttl]_vars
    /\ \A h \in Handles :
          (pc[h] = "collected" /\ hold[h] = "held")
             ~> (thread[h] = "dead" /\ KeyOf(h).val # lock[h].id)

\* The handle was collected while holding, its worker has ended, the lease
\* has expired and a contender holds the lock.
C17_Witness ==
    \E h, w \in Handles :
        /\ Rivals(h, w)
        /\ pc[h] = "collected"
        /\ thread[h] = "dead"
        /\ hold[h] = "expired"
        /\ hold[w] = "held"

\* C18. When release() on an auto-renewal handle ends, by returning or by
\* raising NotAcquired, the handle has no renewal worker: its
\* _lock_renewal_thread is None.
C18_ReleaseLeavesNoWorker ==
    [][\A h \in Handles :
         (Ends(h, "release") /\ lock[h].renewal_interval # 0)
         => thread'[h] = "None"]_vars

\* C19. Handle reuse: a handle that held the lock and lost it to reset() or
\* reset_all() acquires again: its SET NX on the absent key makes acquire()
\* return True, with a renewal worker started for an auto-renewal handle.
C19_HandleReuse ==
    [][\A h \in Handles :
         (/\ Tries(h)
          /\ hold[h] \in {"reset", "reset_all"}
          /\ KeyOf(h).val = Nil)
         => /\ res'[h] = <<"acquire", "True">>
            /\ lock[h].renewal_interval # 0 => thread'[h] = "waiting"]_vars

\* acquire() is called on handle h in this step.
Calls(h) ==
    /\ pc[h] = "idle"
    /\ pc'[h] = "setnx" \/ (pc'[h] = "done" /\ res'[h][1] = "acquire")

CallsWith(h, blocking, t) ==
    /\ Calls(h)
    /\ acq'[h].blocking = blocking
    /\ acq'[h].timeout = <<t>>

\* C21. acquire(blocking=True, timeout=t) on a handle whose id is not the
\* stored value raises InvalidTimeout for every integer t <= 0, without
\* issuing SET NX or BLPOP (the call ends in the step of its checks and the
\* keys and the queue of blocked clients stay as they were).
C21_InvalidTimeout ==
    [][\A h \in Handles : \A t \in -1..0 :
         (CallsWith(h, TRUE, t) /\ KeyOf(h).val # lock[h].id)
            => /\ res'[h] = <<"acquire", "InvalidTimeout">>
               /\ pc'[h] = "done"
               /\ db' = db
               /\ blocked' = blocked]_vars

\* C22. acquire(blocking=False, timeout=t) raises TimeoutNotUsable for every
\* integer t (0 and negative ones included); acquire(timeout=t) with
\* t > expire raises TimeoutTooLarge on a handle without auto_renewal and
\* passes the checks (goes on to SET NX) on a handle with auto_renewal; both
\* errors leave the lock key, the signal list and the blocked clients as
\* they were.  (All for a handle whose id is not the stored value: that one
\* gets AlreadyAcquired first, C20.)
C22_TimeoutChecks ==
    [][\A h \in Handles : \A t \in -1..LongTimeout :
         KeyOf(h).val # lock[h].id =>
            /\ CallsWith(h, FALSE, t) =>
                  /\ res'[h] = <<"acquire", "TimeoutNotUsable">>
                  /\ pc'[h] = "done"
                  /\ db' = db /\ blocked' = blocked
            /\ (CallsWith(h, TRUE, t) /\ lock[h].expire # 0 /\ t > lock[h].expire) =>
                  IF lock[h].renewal_interval = 0
                  THEN /\ res'[h] = <<"acquire", "TimeoutTooLarge">>
                       /\ pc'[h] = "done"
                       /\ db' = db /\ blocked' = blocked
                  ELSE pc'[h] = "setnx"]_vars

\* The auto-renewing handle's acquire(timeout=t) with t > expire has
\* returned True, and the other handle's acquire(timeout=t) with t > expire
\* has raised TimeoutTooLarge while the lock key is set.
C22_Witness ==
    \E h, g \in Handles :
        /\ res[h] = <<"acquire", "TimeoutTooLarge">>
        /\ KeyOf(h).val = lock[g].id
        /\ res[g] = <<"acquire", "True">>
        /\ lock[g].renewal_interval # 0
        /\ acq[g].timeout = <<LongTimeout>>
        /\ lock[g].expire < LongTimeout

SignalHasTtl ==
    \A n \in Names :
        IF db[n].sig > 0 THEN db[n].sigttl > 0 ELSE db[n].sigttl = -2

\* One second passes: a token on the list stays when more than a second of
\* its TTL is left and is gone otherwise.
SignalAges ==
    \A n \in Names :
        (Tick /\ db[n].sig > 0) =>
           IF db[n].sigttl > 1000
           THEN db'[n].sig = db[n].sig /\ db'[n].sigttl = db[n].sigttl - 1000
           ELSE db'[n].sig = 0

\* A successful release() or a reset() by handle h leaves a token on the list.
Signals(h) ==
    /\ \/ Ends(h, "release") /\ res'[h][2] = "None"
       \/ Ends(h, "reset")
    /\ db'[lock[h].name].sig > 0

\* C24 as stated: the token left by release(), reset() or reset_all() lives
\* for the signal_expire the handle of that name was configured with.
C24_SignalExpiry ==
    [][\A h \in Handles :
         LET n == lock[h].name
         IN /\ Signals(h) => db'[n].sigttl = lock[h].signal_expire
            /\ (ResetAll /\ db[n].val # Nil /\ db'[n].sig > 0)
                  => db'[n].sigttl = lock[h].signal_expire]_vars

\* C24, amended.  The signal list is never a persistent key; the token left
\* by release() or reset() lives for the handle's signal_expire; the token
\* left by reset_all() lives for one second, whatever signal_expire the
\* handles of that name were configured with; a token that is not consumed
\* stays until its TTL has elapsed and is gone then.
C24_SignalExpiryPerCall ==
    /\ []SignalHasTtl
    /\ [][/\ SignalAges
          /\ \A h \in Handles :
               LET n == lock[h].name
               IN /\ Signals(h) => db'[n].sigttl = lock[h].signal_expire
                  /\ (ResetAll /\ db[n].val # Nil /\ db'[n].sig > 0)
                        => db'[n].sigttl = ResetAllSignalExpire * 1000]_vars

\* A handle configured with a signal_expire of more than a second lost the
\* lock to reset_all(), and the token of that reset_all() has a TTL of one
\* second.
C24_Witness ==
    \E h \in Handles :
        /\ hold[h] = "reset_all"
        /\ lock[h].signal_expire > ResetAllSignalExpire * 1000
        /\ KeyOf(h).sig = 1
        /\ KeyOf(h).sigttl = ResetAllSignalExpire * 1000

\* Two handles built with the same explicit id on the same name.
Twins(a, b) ==
    a # b /\ lock[a].name = lock[b].name /\ lock[a].id = lock[b].id

ReleasesAfterTwinExtend(h1, h2) ==
    /\ Twins(h1, h2)
    /\ hold[h1] = "held"
    /\ res[h2] = <<"extend", "None">>
    /\ Ends(h1, "release")

\* C26 as stated: the first handle acquires, the second (same id) extends
\* successfully, and the first handle's release() then raises NotAcquired.
C26_ReleaseAfterTwinExtend ==
    [][\A h1, h2 \in Handles :
         ReleasesAfterTwinExtend(h1, h2) => res'[h1][2] = "NotAcquired"]_vars

\* C26, amended.  After the second handle's extend the key still stores the
\* shared id, so the first handle's release() succeeds and removes the key;
\* it raises NotAcquired only once the second handle's release() has
\* removed the key (test_given_id).
C26_ReleaseAfterTwinRelease ==
    [][\A h1, h2 \in Handles :
         /\ ReleasesAfterTwinExtend(h1, h2) =>
               /\ res'[h1][2] = "None"
               /\ db'[lock[h1].name].val = Nil
         /\ (/\ Twins(h1, h2)
             /\ hold[h1] = "peer"
             /\ res[h2] = <<"release", "None">>
             /\ Ends(h1, "release")) =>
               /\ res'[h1][2] = "NotAcquired"
               /\ db' = db]_vars

\* The second handle (no expire of its own) has extended the lock the first
\* acquired, and the first handle's release() has succeeded.
C26_Witness ==
    \E h1, h2 \in Handles :
        /\ Twins(h1, h2)
        /\ lock[h2].expire = 0
        /\ res[h2] = <<"extend", "None">>
        /\ res[h1] = <<"release", "None">>
        /\ KeyOf(h1).val = Nil

\* C27. locked() returns True exactly when the lock key exists, whatever id
\* it stores; get_owner_id() returns the stored value, or None when the key
\* is absent: the handle's own id after its successful acquire(); before
\* any call the key is absent; neither call changes the keys or the clients
\* blocked on the server.
C27_Observers ==
    /\ \A n \in Names : db[n].val = Nil
    /\ [][\A h \in Handles :
            /\ Ends(h, "locked") =>
                  /\ res'[h][2] = (IF KeyOf(h).val # Nil THEN "True" ELSE "False")
                  /\ UNCHANGED <<db, blocked, blpopLeft>>
            /\ Ends(h, "get_owner_id") =>
                  /\ res'[h][2] = (IF KeyOf(h).val = Nil THEN "None" ELSE KeyOf(h).val)
                  /\ hold[h] = "held" => res'[h][2] = lock[h].id
                  /\ UNCHANGED <<db, blocked, blpopLeft>>]_vars

\* locked() has returned True on a handle whose id is not the stored one,
\* and get_owner_id() has returned the id of the handle that acquired.
C27_Witness ==
    \E h, g \in Handles :
        /\ res[h] = <<"locked", "True">>
        /\ KeyOf(h).val # lock[h].id
        /\ hold[g] = "held"
        /\ res[g] = <<"get_owner_id", lock[g].id>>

\* C28. A blocking acquire whose BLPOP wait ends without a token issues
\* SET NX once more; so when the holder's lease ran out while the handle
\* was blocked in BLPOP (and no other client set the key since), that SET
\* NX finds the key absent and the acquire() returns True.
C28_AcquireAfterExpiry ==
    [][\A w \in Handles :
         /\ (pc[w] = "blocked" /\ pc'[w] # "blocked") => pc'[w] = "setnx"
         /\ (Tries(w) /\ freed[w] = <<"expired", "blocked">>)
               => /\ KeyOf(w).val = Nil
                  /\ res'[w] = <<"acquire", "True">>]_vars

\* C29 as stated: whenever a waiter's BLPOP returned a token, the waiter's
\* next SET NX finds the lock key absent.
C29_TokenMeansFree ==
    [][\A w \in Handles :
         (Tries(w) /\ token[w]) => KeyOf(w).val = Nil]_vars

\* C29, amended.  When a client blocked in BLPOP is served by the push of
\* release(), reset() or reset_all(), the lock key is absent in that state
\* (the script deletes and pushes atomically).  By the waiter's next SET NX
\* another client may have set the key, and a BLPOP that pops a token left
\* on the list returns while the key may be set: the SET NX then fails,
\* changes nothing, and the waiter goes back to BLPOP; with the key absent
\* it stores the waiter's id.
C29_TokenAtPushMeansFree ==
    [][\A w \in Handles :
         LET n == lock[w].name
         IN /\ (pc[w] = "blocked" /\ token'[w]) =>
                  /\ db'[n].val = Nil
                  /\ pc'[w] = "setnx"
            /\ (Tries(w) /\ token[w]) =>
                  IF KeyOf(w).val = Nil
                  THEN db'[n].val = lock[w].id
                  ELSE /\ db' = db
                       /\ pc'[w] = "blpop"
                       /\ hold'[w] = hold[w]]_vars

\* A waiter was woken by the token of the step that removed the key, and
\* another client has set the key before the waiter's SET NX.
C29_Witness ==
    \E w \in Handles :
        /\ pc[w] = "setnx"
        /\ token[w]
        /\ freed[w] = <<"taken", "-">>
        /\ KeyOf(w).val \notin {Nil, lock[w].id}

\* Every handle that holds the lock has its id stored under the lock key.
HolderIsStored ==
    \A h \in Handles : hold[h] = "held" => KeyOf(h).val = lock[h].id

\* C30. The signal list is only a hint.  acquire() returns True only in a
\* step in which its own SET NX found the key absent and stored the
\* handle's id.  Receiving a token never makes the handle a holder: it only
\* sends it to its next SET NX; a BLPOP that pops a token leaves the lock
\* key and its TTL as they were and the list empty, so that a stale token
\* costs one failed SET NX, after which the handle blocks again; and a
\* handle holds only while its id is the stored value, so there is never a
\* second holder.
C30_SignalIsHint ==
    /\ []HolderIsStored
    /\ [][\A h \in Handles :
            LET n == lock[h].name
            IN /\ (Ends(h, "acquire") /\ res'[h][2] = "True") =>
                     /\ Tries(h)
                     /\ db[n].val = Nil
                     /\ db'[n].val = lock[h].id
               /\ (~token[h] /\ token'[h]) =>
                     /\ pc'[h] = "setnx"
                     /\ hold'[h] # "held"
                     /\ res'[h] = res[h]
               /\ (pc[h] = "blpop" /\ token'[h]) =>
                     /\ db'[n].val = db[n].val
                     /\ db'[n].ttl = db[n].ttl
                     /\ db'[n].sig = 0
               /\ (Tries(h) /\ token[h] /\ db[n].val # Nil) =>
                     /\ db' = db
                     /\ hold' = hold
                     /\ pc'[h] \in {"blpop", "done"}]_vars

\* A handle popped a token left by an earlier release (the key was not
\* removed during its acquire) while a rival holds the lock.
C30_Witness ==
    \E h, g \in Handles :
        /\ Rivals(h, g)
        /\ hold[g] = "held"
        /\ pc[h] = "setnx"
        /\ token[h]
        /\ freed[h] = NotFreed

\* Handle h issues a BLPOP that finds the signal list empty, so that the
\* client blocks with the timeout it passed.
Blocks(h) == pc[h] = "blpop" /\ pc'[h] = "blocked"

\* C31. Effective BLPOP timeout.  Each BLPOP of a blocking acquire() is
\* issued with min(timeout, expire) when the caller's timeout and the
\* handle's expire are both set, with auto_renewal on or off; with the one
\* that is set when only one is; and with 0 when neither is.
C31_BlpopTimeout ==
    [][\A h \in Handles :
          Blocks(h) =>
              blpopLeft'[h] =
                  IF Truthy(acq[h].timeout) /\ lock[h].expire # 0
                  THEN Min(acq[h].timeout[1], lock[h].expire)
                  ELSE IF Truthy(acq[h].timeout) THEN acq[h].timeout[1]
                  ELSE lock[h].expire]_vars

\* The renewal worker of handle h is running (waiting or about to extend).
Alive(h) == thread[h] \in {"waiting", "due"}

\* The worker of handle h runs its EXTEND in this step.
WorkerExtends(h) == thread[h] = "due" /\ thread'[h] # "due"

\* C32. Ordering of release and renewal.  release() sets the stop event and
\* waits for the worker to exit before it runs UNLOCK: the UNLOCK of a
\* handle runs only with no live worker, after it a worker comes to life
\* only through the next acquire() that returns True, and while a release()
\* has returned no worker of the handle is alive.  When the stop event
\* races with a worker that has just woken up, that worker's EXTEND runs
\* before the UNLOCK and is its last command.
C32_ReleaseJoins ==
    /\ [](\A h \in Handles : res[h][1] = "release" => ~Alive(h))
    /\ [][\A h \in Handles :
            /\ Ends(h, "release") => ~Alive(h) /\ thread'[h] \in {"None", "dead"}
            /\ (~Alive(h) /\ thread'[h] \in {"waiting", "due"}) =>
                  /\ Ends(h, "acquire")
                  /\ res'[h][2] = "True"
            /\ (pc[h] = "join" /\ WorkerExtends(h)) =>
                  /\ thread'[h] = "dead"
                  /\ pc'[h] = "join"
                  /\ res'[h] = res[h]]_vars

\* release() has set the stop event while the worker had just woken up to
\* extend.
C32_Witness ==
    \E h \in Handles :
        /\ pc[h] = "join"
        /\ stop[h]
        /\ thread[h] = "due"
        /\ KeyOf(h).val = lock[h].id

\* C33. Renewal worker on a lost lease.  The worker's only server effect is
\* to set the TTL of its lock key to expire when the stored value is its
\* handle's id: it never creates the key, never changes its value, never
\* deletes it, never touches the signal list or another name, and wakes no
\* waiter.  When the key is absent or holds another id the EXTEND changes
\* nothing and the worker terminates; a terminated worker does not come
\* back to life, so it neither re-acquires nor extends another id's lock.
C33_WorkerOnLostLease ==
    [][\A h \in Handles :
          LET n == lock[h].name
          IN /\ WorkerExtends(h) =>
                  /\ \A m \in Names \ {n} : db'[m] = db[m]
                  /\ db'[n].val = db[n].val
                  /\ db'[n].sig = db[n].sig
                  /\ db'[n].sigttl = db[n].sigttl
                  /\ blocked' = blocked
                  /\ pc' = pc
                  /\ db[n].val # lock[h].id =>
                        /\ db' = db
                        /\ thread'[h] = "dead"
                  /\ (db[n].val = lock[h].id /\ db[n].ttl > 0 /\ Lockref(h)) =>
                        db'[n].ttl = lock[h].expire
             /\ thread[h] = "dead" => thread'[h] \in {"dead", "None"}]_vars

\* The worker found the key owned by another id, on its own and not on a
\* stop signal, and has terminated; the other id's lock is still there.
C33_Witness ==
    \E h \in Handles :
        /\ thread[h] = "dead"
        /\ ~stop[h]
        /\ pc[h] = "idle"
        /\ KeyOf(h).val \notin {Nil, lock[h].id}
        /\ KeyOf(h).ext = 0

\* C37. Error atomicity of acquire().  acquire() writes the lock key only
\* in calls that return True: in the step in which a call raises or
\* returns False the value and the TTL stored under the handle's lock key
\* stay as they were, so no exception leaves the caller's id stored.
C37_AcquireErrorAtomic ==
    [][\A h \in Handles :
          (Ends(h, "acquire") /\ res'[h][2] # "True") =>
              /\ db'[lock[h].name].val = db[lock[h].name].val
              /\ db'[lock[h].name].ttl = db[lock[h].name].ttl]_vars

\* C38. No waiter is stranded on a free lock.  Whenever the lock key of a
\* name becomes absent, by release(), reset(), reset_all() or the expiry of
\* the holder's lease, a handle (without renewal thread) inside a blocking
\* acquire() without timeout on that name eventually returns True, unless
\* another client sets the key first.
C38_NoWaiterStranded ==
    \A w \in Handles :
        (/\ freed[w][1] \in Causes
         /\ acq[w].blocking
         /\ acq[w].timeout = NoTimeout
         /\ lock[w].renewal_interval = 0)
        ~> (freed[w][1] \in {"got", "taken"})

\* Handle h is blocked in a BLPOP without timeout (no timeout given, no
\* expire on the handle).
WaitsForever(h) ==
    /\ pc[h] = "blocked"
    /\ acq[h].timeout = NoTimeout
    /\ lock[h].expire = 0

\* Every handle is granted the lock only finitely often: no client keeps
\* coming back for the lock forever.
NoEndlessBarging ==
    \A h \in Handles : <>[](res[h] # <<"acquire", "True">>)

\* C39. One token wakes one waiter, and the waiters are served one after
\* another: when two or more handles are blocked in BLPOP on the same
\* signal list, without timeouts and without expiry, every client releases
\* after acquiring and none keeps re-acquiring forever, each of the blocked
\* handles eventually acquires the lock.
C39_WaitersAllAcquire ==
    NoEndlessBarging =>
        \A w, v \in Handles :
            (/\ w # v
             /\ lock[w].name = lock[v].name
             /\ WaitsForever(w)
             /\ WaitsForever(v))
            ~> (res[w] = <<"acquire", "True">>)

C35_NoScriptRetry ==
    (/\ wrapper.at = "done"
     /\ wrapper.outs[1] = "NoScriptError"
     /\ wrapper.conn /\ wrapper.force)
    => /\ wrapper.registered = 1
       /\ wrapper.calls = 2
       /\ wrapper.result = IF wrapper.outs[2] = "ok" THEN <<"return", 2>>
                           ELSE <<"raise", wrapper.outs[2]>>

\* C36. Old single-file module: the UNLOCK of a release() on a handle that
\* does not hold the lock (the lock key is absent or was set by another
\* handle), for instance one whose non-blocking acquire() returned False,
\* leaves the lock key as it is, for handles built with an expire and for
\* handles built without one.
C36_LegacyRelease ==
    [][\A h \in Handles :
          (/\ legacy.at[h] \in {"evalsha", "eval"}
           /\ legacy'.at[h] = "idle"
           /\ legacy.by # h)
          => /\ legacy'.val = legacy.val
             /\ legacy'.ttl = legacy.ttl
             /\ legacy'.by = legacy.by]_vars
====
